---------------------------- MODULE Spec2Model ----------------------------
(***************************************************************************)
(* The /ctf/ subpath reverse proxy of the site: the nginx location block   *)
(* of REVERSE-PROXY-README (proxy_pass, proxy_set_header, sub_filter,      *)
(* proxy_hide_header, proxy_cache_valid) and its "Enhanced caching"        *)
(* variant (proxy_cache, proxy_cache_use_stale).                           *)
(*                                                                         *)
(* Texts are sequences of tokens.  In a response body each token stands    *)
(* for a literal piece of text:                                            *)
(*   "href="  "src="  "action="  "url("   the text itself                  *)
(*   "dq" a double quote, "sq" a single quote, "/" a slash,                *)
(*   "ctf" the text ctf, "x" any other text.                               *)
(* A request path is a sequence of single characters.                      *)
(***************************************************************************)
EXTENDS Integers, Sequences, FiniteSets, TLC

VARIABLES
    texts,        \* sub_filter runs: <<body, body after one pass, after two>>
    ctype,        \* Content-Type of the body in texts
    uri,          \* a request path given to the location matcher
    located,      \* what the matcher decided for uri
    proxy_cache,  \* "off" (the location block) or "ctf_cache" (enhanced caching)
    clock,        \* minutes since the proxy started
    ticks,        \* how many times the clock advanced
    cache,        \* cache key -> the stored upstream response (an entry)
    conn,         \* client -> its connection: the request in hand and its answer
    run           \* the run of a local script: where it is, what it ran and printed

pureVars == <<texts, ctype, uri, located>>
proxyVars == <<proxy_cache, clock, ticks, cache, conn>>
scriptVars == <<run>>
vars == <<texts, ctype, uri, located, proxy_cache, clock, ticks, cache, conn, run>>

---------------------------------------------------------------------------
(* Bounds of the model *)

MaxBodyLen == 4
MaxPathLen == 6
MaxTicks == 2
MaxFailures == 2
MaxAddresses == 2
MaxOrderLen == 3
MaxUrlLen == 5

BodyTokens == {"href=", "src=", "action=", "url(", "dq", "sq", "/", "ctf", "x"}
PathChars == {"/", "c", "t", "f", "x"}

RECURSIVE SeqsUpTo(_, _)
SeqsUpTo(S, n) ==
    IF n = 0 THEN {<<>>}
    ELSE LET shorter == SeqsUpTo(S, n - 1)
         IN shorter \cup {Append(s, c) : s \in {t \in shorter : Len(t) = n - 1}, c \in S}

Bodies == SeqsUpTo(BodyTokens, MaxBodyLen)
Paths == {<<"/">> \o s : s \in SeqsUpTo(PathChars, MaxPathLen - 1)}

---------------------------------------------------------------------------
(* Body Rewriter: sub_filter *)

\* sub_filter_types text/html text/css application/javascript;
sub_filter_types == {"text/html", "text/css", "application/javascript"}

ContentTypes == sub_filter_types \cup {"application/octet-stream"}

\* Variant: the first replacement ends in the pattern of the last directive.
sub_filter_rules_chained ==
    << [match |-> <<"href=", "dq", "/">>,   repl |-> <<"href=", "dq", "/", "url(", "/">>],
       [match |-> <<"src=", "dq", "/">>,    repl |-> <<"src=", "dq", "/", "ctf", "/">>],
       [match |-> <<"action=", "dq", "/">>, repl |-> <<"action=", "dq", "/", "ctf", "/">>],
       [match |-> <<"url(", "dq", "/">>,    repl |-> <<"url(", "dq", "/", "ctf", "/">>],
       [match |-> <<"url(", "sq", "/">>,    repl |-> <<"url(", "sq", "/", "ctf", "/">>],
       [match |-> <<"url(", "/">>,          repl |-> <<"url(", "/", "ctf", "/">>] >>

\* Variant: the last directive rewrites every url( (its pattern is the
\* beginning of the two before it).
sub_filter_rules_prefix ==
    << [match |-> <<"href=", "dq", "/">>,   repl |-> <<"href=", "dq", "/", "ctf", "/">>],
       [match |-> <<"src=", "dq", "/">>,    repl |-> <<"src=", "dq", "/", "ctf", "/">>],
       [match |-> <<"action=", "dq", "/">>, repl |-> <<"action=", "dq", "/", "ctf", "/">>],
       [match |-> <<"url(", "dq", "/">>,    repl |-> <<"url(", "dq", "/", "ctf", "/">>],
       [match |-> <<"url(", "sq", "/">>,    repl |-> <<"url(", "sq", "/", "ctf", "/">>],
       [match |-> <<"url(">>,               repl |-> <<"url(", "ctf", "/">>] >>

\* The six sub_filter directives, in configured order.
sub_filter_rules ==
    << [match |-> <<"href=", "dq", "/">>,   repl |-> <<"href=", "dq", "/", "ctf", "/">>],
       [match |-> <<"src=", "dq", "/">>,    repl |-> <<"src=", "dq", "/", "ctf", "/">>],
       [match |-> <<"action=", "dq", "/">>, repl |-> <<"action=", "dq", "/", "ctf", "/">>],
       [match |-> <<"url(", "dq", "/">>,    repl |-> <<"url(", "dq", "/", "ctf", "/">>],
       [match |-> <<"url(", "sq", "/">>,    repl |-> <<"url(", "sq", "/", "ctf", "/">>],
       [match |-> <<"url(", "/">>,          repl |-> <<"url(", "/", "ctf", "/">>] >>

\* pattern p occurs in text b at position i
OccursAt(p, b, i) ==
    /\ i >= 1
    /\ i + Len(p) - 1 <= Len(b)
    /\ \A j \in 1..Len(p) : b[i + j - 1] = p[j]

\* the first configured rule whose pattern occurs at position i, 0 if none
RuleAt(b, i) ==
    LET hits == {k \in 1..Len(sub_filter_rules) : OccursAt(sub_filter_rules[k].match, b, i)}
    IN IF hits = {} THEN 0 ELSE CHOOSE k \in hits : \A m \in hits : k <= m

\* One left-to-right scan of the body: a match is replaced and the scan goes on
\* after the matched text; the replacement is output, never scanned again
\* (sub_filter_once off: every occurrence is replaced).
RECURSIVE SubScan(_, _)
SubScan(b, i) ==
    IF i > Len(b) THEN <<>>
    ELSE LET k == RuleAt(b, i)
         IN IF k = 0
            THEN <<b[i]>> \o SubScan(b, i + 1)
            ELSE sub_filter_rules[k].repl \o SubScan(b, i + Len(sub_filter_rules[k].match))

\* The same scan with the directives written in another order: rules is a
\* sequence of the configured rules.
RuleAtIn(rules, b, i) ==
    LET hits == {k \in 1..Len(rules) : OccursAt(rules[k].match, b, i)}
    IN IF hits = {} THEN 0 ELSE CHOOSE k \in hits : \A m \in hits : k <= m

RECURSIVE SubScanIn(_, _, _)
SubScanIn(rules, b, i) ==
    IF i > Len(b) THEN <<>>
    ELSE LET k == RuleAtIn(rules, b, i)
         IN IF k = 0
            THEN <<b[i]>> \o SubScanIn(rules, b, i + 1)
            ELSE rules[k].repl \o SubScanIn(rules, b, i + Len(rules[k].match))

\* Variant: sub_filter_once on, only the first occurrence is replaced.
RECURSIVE FirstOccurrence(_, _)
FirstOccurrence(b, i) ==
    IF i > Len(b) THEN 0
    ELSE IF RuleAt(b, i) # 0 THEN i ELSE FirstOccurrence(b, i + 1)

SubFilterOnce(b) ==
    LET i == FirstOccurrence(b, 1)
    IN IF i = 0 THEN b
       ELSE LET r == sub_filter_rules[RuleAt(b, i)]
            IN SubSeq(b, 1, i - 1) \o r.repl \o SubSeq(b, i + Len(r.match), Len(b))

\* Variant: an occurrence already followed by ctf/ is left alone.
RECURSIVE SubScanGuarded(_, _)
SubScanGuarded(b, i) ==
    IF i > Len(b) THEN <<>>
    ELSE LET k == RuleAt(b, i)
             n == IF k = 0 THEN 0 ELSE Len(sub_filter_rules[k].match)
         IN IF k = 0 \/ OccursAt(<<"ctf", "/">>, b, i + n)
            THEN <<b[i]>> \o SubScanGuarded(b, i + 1)
            ELSE sub_filter_rules[k].repl \o SubScanGuarded(b, i + n)

SubFilterGuarded(b) == SubScanGuarded(b, 1)

SubFilter(b) == SubScan(b, 1)

\* Variant: sub_filter_types *, every response body is rewritten.
BodyFilterAnyType(ct, b) == SubFilter(b)

\* sub_filter works on the configured MIME types only
BodyFilter(ct, b) == IF ct \in sub_filter_types THEN SubFilter(b) ELSE b

---------------------------------------------------------------------------
(* Router: location matching and proxy_pass *)

\* location /ctf/ { proxy_pass https://ctf.vercel.app/; }
CtfPrefix == <<"/", "c", "t", "f", "/">>
\* the main site, served from the root path
RootPrefix == <<"/">>

IsPrefix(p, s) == Len(p) <= Len(s) /\ SubSeq(s, 1, Len(p)) = p

\* The prefix locations of the server and what serves each.
Locations ==
    { [prefix |-> RootPrefix, handler |-> "static"],
      [prefix |-> CtfPrefix,  handler |-> "proxy"] }

\* Variant: the matching location with the shortest prefix.
ShortestMatch(p) ==
    LET ms == {l \in Locations : IsPrefix(l.prefix, p)}
    IN CHOOSE l \in ms : \A m \in ms : Len(l.prefix) <= Len(m.prefix)

\* the matching location with the longest prefix
LongestMatch(p) ==
    LET ms == {l \in Locations : IsPrefix(l.prefix, p)}
    IN CHOOSE l \in ms : \A m \in ms : Len(m.prefix) <= Len(l.prefix)

\* A prefix location that ends with a slash and is handled by proxy_pass
\* answers the request for the prefix without its trailing slash with a
\* permanent redirect to the prefix.
AutoRedirect(p) ==
    \E l \in Locations :
        /\ l.handler = "proxy"
        /\ p = SubSeq(l.prefix, 1, Len(l.prefix) - 1)

Route(p) ==
    IF AutoRedirect(p) THEN "redirect" ELSE LongestMatch(p).handler

\* Variant: proxy_pass without a URI, the request path goes upstream as it is.
UpstreamPathUnchanged(p) == p

\* proxy_pass with a URI ("/"): the part of the request path that matched the
\* location prefix is replaced by that URI.
UpstreamPath(p) == <<"/">> \o SubSeq(p, Len(CtfPrefix) + 1, Len(p))

---------------------------------------------------------------------------
(* Forwarder: proxy_set_header, proxy_hide_header, proxy_redirect *)

Clients == {"c1", "c2"}

\* $remote_addr of a client's connection
remote_addr(c) == c

\* proxy_hide_header X-Frame-Options; X-Content-Type-Options;
\* Content-Security-Policy; X-XSS-Protection;
proxy_hide_header ==
    {"X-Frame-Options", "X-Content-Type-Options", "Content-Security-Policy", "X-XSS-Protection"}

NotLocated == [handler |-> "none", upstream |-> <<>>]

NoRequest ==
    [method |-> "", path |-> <<>>, host |-> "", scheme |-> "",
     xrealip |-> "", xff |-> <<>>, xfproto |-> "", body |-> ""]

\* size: what the response takes in the cache, in gigabytes
NoResponse ==
    [status |-> 0, ctype |-> "", headers |-> {}, location |-> <<>>, body |-> <<>>,
     size |-> 0]

NoEntry == [resp |-> NoResponse, storedAt |-> -1, expiresAt |-> -1, usedAt |-> -1]

\* Variant: X-Forwarded-For $remote_addr, the client's field is dropped.
UpstreamRequestOwnXff(c, req) ==
    [method  |-> req.method,
     path    |-> UpstreamPath(req.path),
     host    |-> req.host,
     scheme  |-> "https",
     xrealip |-> remote_addr(c),
     xff     |-> <<remote_addr(c)>>,
     xfproto |-> req.scheme,
     body    |-> req.body]

\* The request sent to the upstream: the method and the body of the client's
\* request, the path after proxy_pass, and
\*   proxy_set_header Host $host;
\*   proxy_set_header X-Real-IP $remote_addr;
\*   proxy_set_header X-Forwarded-For $proxy_add_x_forwarded_for;
\*   proxy_set_header X-Forwarded-Proto $scheme;
\* $host is the host name of the client's request; $proxy_add_x_forwarded_for
\* is the client's X-Forwarded-For field with $remote_addr appended to it.
UpstreamRequest(c, req) ==
    [method  |-> req.method,
     path    |-> UpstreamPath(req.path),
     host    |-> req.host,
     scheme  |-> "https",
     xrealip |-> remote_addr(c),
     xff     |-> Append(req.xff, remote_addr(c)),
     xfproto |-> req.scheme,
     body    |-> req.body]

\* Variant: no proxy_hide_header, the upstream's headers all go downstream.
DownstreamAllHeaders(u) ==
    [status   |-> u.status,
     ctype    |-> u.ctype,
     headers  |-> u.headers,
     location |-> u.location,
     body     |-> BodyFilter(u.ctype, u.body),
     size     |-> u.size]

\* Variant: proxy_redirect / /ctf/, the Location gets the prefix.
DownstreamRedirectPrefixed(u) ==
    [status   |-> u.status,
     ctype    |-> u.ctype,
     headers  |-> u.headers \ proxy_hide_header,
     location |-> IF u.location = <<>> THEN <<>>
                  ELSE <<"/", "c", "t", "f">> \o u.location,
     body     |-> BodyFilter(u.ctype, u.body),
     size     |-> u.size]

\* What goes downstream for an upstream (or cached) response u: the status as
\* it is, the hidden headers removed, the Location untouched (proxy_redirect
\* off), the body through sub_filter.
Downstream(u) ==
    [status   |-> u.status,
     ctype    |-> u.ctype,
     headers  |-> u.headers \ proxy_hide_header,
     location |-> u.location,
     body     |-> BodyFilter(u.ctype, u.body),
     size     |-> u.size]

\* nginx's own answers
GatewayError(kind) ==
    [status   |-> IF kind = "timeout" THEN 504 ELSE 502,
     ctype    |-> "text/html",
     headers  |-> {},
     location |-> <<>>,
     body     |-> <<"x">>,
     size     |-> 0]

SlashRedirect(p) ==
    [status |-> 301, ctype |-> "text/html", headers |-> {},
     location |-> Append(p, "/"), body |-> <<"x">>, size |-> 0]

\* the React application's index document, served by the static-file server
StaticPage ==
    [status |-> 200, ctype |-> "text/html", headers |-> {},
     location |-> <<>>, body |-> <<"src=", "dq", "/", "x">>, size |-> 0]

---------------------------------------------------------------------------
(* Cache: proxy_cache, proxy_cache_valid, proxy_cache_use_stale *)

\* proxy_cache_valid 200 1h;  proxy_cache_valid 404 1m;   (in minutes)
Ttl200 == 60
Ttl404 == 1

\* Variant: the two times exchanged.
proxy_cache_valid_swapped(status) ==
    CASE status = 200 -> Ttl404
      [] status = 404 -> Ttl200
      [] OTHER -> 0

\* Variant: proxy_cache_valid any 1m.
proxy_cache_valid_any(status) == IF status = 200 THEN Ttl200 ELSE Ttl404

proxy_cache_valid(status) ==
    CASE status = 200 -> Ttl200
      [] status = 404 -> Ttl404
      [] OTHER -> 0

\* Variant: proxy_cache_use_stale without error and timeout.
use_stale_never == {}

\* proxy_cache_use_stale error timeout http_500 http_502 http_503 http_504;
use_stale_failures == {"error", "timeout"}

\* Variant: http_404 among the conditions.
use_stale_with_404 == {404, 500, 502, 503, 504}

use_stale_statuses == {500, 502, 503, 504}

\* responses to these request methods are cached
CacheMethods == {"GET"}

\* the time the proxy waits for the upstream, in minutes
UpstreamTimeout == 1

Caching(req) == proxy_cache # "off" /\ req.method \in CacheMethods

Lookup(key) == IF key \in DOMAIN cache THEN cache[key] ELSE NoEntry

Expired(e) == e.expiresAt < clock

\* Variant: proxy_cache_lock on; only the first response for a key is written
\* while the entry is fresh.
StoreOnce(key, u) ==
    IF key \in DOMAIN cache /\ ~Expired(cache[key])
    THEN cache
    ELSE [k \in (DOMAIN cache) \cup {key} |->
             IF k = key
             THEN [resp |-> u, storedAt |-> clock,
                   expiresAt |-> clock + proxy_cache_valid(u.status), usedAt |-> clock]
             ELSE cache[k]]

\* Variant: the entry holds the response as the client got it, rewritten.
StoreRewritten(key, u) ==
    LET e == [resp |-> [u EXCEPT !.body = BodyFilter(u.ctype, u.body)],
              storedAt |-> clock,
              expiresAt |-> clock + proxy_cache_valid(u.status), usedAt |-> clock]
    IN [k \in (DOMAIN cache) \cup {key} |-> IF k = key THEN e ELSE cache[k]]

\* Variant: a second write for a key keeps the expiry of the first.
StoreKeepingExpiry(key, u) ==
    LET e == [resp |-> u, storedAt |-> clock,
              expiresAt |-> IF key \in DOMAIN cache THEN cache[key].expiresAt
                            ELSE clock + proxy_cache_valid(u.status),
              usedAt |-> clock]
    IN [k \in (DOMAIN cache) \cup {key} |-> IF k = key THEN e ELSE cache[k]]

Store(key, u) ==
    LET e == [resp |-> u, storedAt |-> clock,
              expiresAt |-> clock + proxy_cache_valid(u.status), usedAt |-> clock]
    IN [k \in (DOMAIN cache) \cup {key} |-> IF k = key THEN e ELSE cache[k]]

\* a lookup makes the entry of the key the most recently used one
Touch(key) ==
    IF key \in DOMAIN cache THEN [cache EXCEPT ![key].usedAt = clock] ELSE cache

\* proxy_cache_path ... max_size=10g inactive=60m   (gigabytes, minutes)
max_size == 10
inactive == 60

RECURSIVE SizeOf(_)
SizeOf(keys) ==
    IF keys = {} THEN 0
    ELSE LET k == CHOOSE x \in keys : TRUE
         IN cache[k].resp.size + SizeOf(keys \ {k})

\* what the cache takes on disk
CacheSize == SizeOf(DOMAIN cache)

\* an entry a waiting request holds is not removed
InUse(key) ==
    \E c \in DOMAIN conn :
        conn[c].st = "upstream" /\ Caching(conn[c].req) /\ conn[c].up.path = key

\* Variant: inactive=1m.
InactiveOneMinute(e) == e.usedAt + 1 <= clock

\* the entry has not been looked up for the inactive time
Inactive(e) == e.usedAt + inactive <= clock

\* the least recently used of the entries no request holds
LeastRecentlyUsed(key) ==
    \A k \in DOMAIN cache : ~InUse(k) => cache[key].usedAt <= cache[k].usedAt

---------------------------------------------------------------------------
(* The local scripts: test-pipeline.sh, test-pipeline.ps1, test-proxy.sh *)
(* and test-proxy.ps1                                                    *)

\* A script is a list of instructions, taken one after another.  An
\* instruction is taken when all its conditions hold (the if, try and catch
\* around it) and is passed over otherwise.
\*   run:   a command; when it fails the script ends with status 1
\*          (onfail "exit": bash under set -e) or goes on ("continue": a
\*          command after ||, or a native command in PowerShell, whose exit
\*          status stops nothing), printing msg when there is one
\*   say:   a line is printed
\*   exit:  the script ends with the status
RunCmd(when, cmd, onfail, msg) ==
    [op |-> "run", when |-> when, arg |-> cmd, onfail |-> onfail, msg |-> msg, code |-> 0]
Say(when, msg) ==
    [op |-> "say", when |-> when, arg |-> "", onfail |-> "", msg |-> msg, code |-> 0]
ExitWith(when, code) ==
    [op |-> "exit", when |-> when, arg |-> "", onfail |-> "", msg |-> "", code |-> code]

\* test-pipeline.sh
test_pipeline_sh ==
    << Say({"no node"}, "Node.js is not installed"),
       ExitWith({"no node"}, 1),
       Say({"node below 18"}, "Node.js version 18 or higher is required"),
       ExitWith({"node below 18"}, 1),
       RunCmd({}, "npm ci", "exit", ""),
       RunCmd({}, "npm run lint", "exit", ""),
       RunCmd({"tsconfig.json"}, "npx tsc", "exit", ""),
       RunCmd({"test script"}, "npm test", "exit", ""),
       RunCmd({}, "npm run build", "exit", ""),
       Say({"dist"}, "Build completed successfully!"),
       Say({"no dist"}, "Build failed! dist directory not found."),
       ExitWith({"no dist"}, 1),
       RunCmd({}, "npm audit", "continue", "npm audit found vulnerabilities"),
       RunCmd({"docker"}, "docker build", "exit", ""),
       Say({"docker", "docker build ok"}, "Docker build successful!"),
       RunCmd({"docker", "docker build ok"}, "docker run --rm", "exit", ""),
       RunCmd({"docker", "docker build ok"}, "probe", "continue",
              "Container is running but not responding to HTTP requests"),
       Say({"docker", "docker build ok", "probe ok"}, "Container is running and responding!"),
       RunCmd({"docker", "docker build ok"}, "docker stop", "exit", ""),
       RunCmd({"docker", "docker build ok"}, "docker rmi", "exit", ""),
       Say({"docker", "docker build failed"}, "Docker build failed!"),
       Say({"no docker"}, "Docker not installed. Skipping Docker build test."),
       RunCmd({}, "npx vite-bundle-analyzer", "continue", "Bundle analyzer not available"),
       RunCmd({}, "find dist", "continue", "No files larger than 1MB found"),
       Say({}, "All pipeline stages completed successfully!") >>

\* test-pipeline.ps1
test_pipeline_ps1 ==
    << Say({"no node"}, "Node.js is not installed"),
       ExitWith({"no node"}, 1),
       Say({"node below 18"}, "Node.js version 18 or higher is required"),
       ExitWith({"node below 18"}, 1),
       RunCmd({}, "npm ci", "continue", ""),
       RunCmd({}, "npm run lint", "continue", ""),
       RunCmd({"tsconfig.json"}, "npx tsc", "continue", ""),
       RunCmd({"test script"}, "npm test", "continue", ""),
       RunCmd({}, "npm run build", "continue", ""),
       Say({"dist"}, "Build completed successfully!"),
       Say({"no dist"}, "Build failed! dist directory not found."),
       ExitWith({"no dist"}, 1),
       RunCmd({}, "npm audit", "continue", ""),
       RunCmd({"no -SkipDocker", "docker"}, "docker build", "continue", ""),
       Say({"no -SkipDocker", "docker", "docker build ok"}, "Docker build successful!"),
       RunCmd({"no -SkipDocker", "docker", "docker build ok"}, "docker run --rm", "continue", ""),
       RunCmd({"no -SkipDocker", "docker", "docker build ok"}, "probe", "continue",
              "Container is running but not responding to HTTP requests"),
       Say({"no -SkipDocker", "docker", "docker build ok", "probe ok"},
           "Container is running and responding!"),
       RunCmd({"no -SkipDocker", "docker", "docker build ok"}, "docker stop", "continue", ""),
       RunCmd({"no -SkipDocker", "docker", "docker build ok"}, "docker rmi", "continue", ""),
       Say({"no -SkipDocker", "docker", "docker build failed"}, "Docker build failed!"),
       Say({"no -SkipDocker", "no docker"},
           "Docker not installed or not available. Skipping Docker build test."),
       Say({}, "All pipeline stages completed successfully!") >>

\* the lines of the test summary, printed whatever the tests found
TestSummary ==
    << Say({}, "Docker build: Successful"),
       Say({}, "Container startup: Successful"),
       Say({}, "Main site: Accessible"),
       Say({}, "CTF proxy: Accessible"),
       Say({}, "Path rewriting: Working"),
       Say({}, "Nginx config: Valid") >>

\* test-proxy.sh, under set -e.  RESPONSE=$(curl ...) ends the script when
\* curl cannot connect; the four paths and the three assets of the two loops
\* are one command each here.
test_proxy_sh ==
    << Say({"docker not running"}, "Docker is not running"),
       ExitWith({"docker not running"}, 1),
       RunCmd({"container running"}, "docker stop", "exit", ""),
       RunCmd({"container running"}, "docker rm", "exit", ""),
       RunCmd({}, "docker build", "exit", ""),
       Say({}, "Docker image built successfully!"),
       RunCmd({}, "docker run", "exit", ""),
       RunCmd({}, "curl /", "exit", ""),
       Say({"main 200"}, "Main site is accessible"),
       Say({"main not 200"}, "Main site returned HTTP"),
       RunCmd({}, "curl /ctf/", "exit", ""),
       Say({"ctf accessible"}, "CTF proxy is accessible"),
       Say({"ctf not accessible"}, "CTF proxy returned HTTP"),
       RunCmd({}, "curl /ctf/ content", "continue", ""),
       Say({"content ok", "rewritten"}, "Path rewriting is working"),
       Say({"not rewritten"}, "Path rewriting may not be working"),
       RunCmd({}, "curl paths", "exit", ""),
       RunCmd({}, "curl assets", "exit", ""),
       RunCmd({}, "docker exec nginx -t", "continue", "Nginx configuration has errors"),
       Say({"nginx -t ok"}, "Nginx configuration is valid"),
       RunCmd({}, "docker logs", "exit", ""),
       RunCmd({}, "docker stop", "exit", ""),
       RunCmd({}, "docker rm", "exit", ""),
       RunCmd({}, "docker rmi", "exit", "") >>
    \o TestSummary

\* test-proxy.ps1: a failing docker command stops nothing unless
\* $LASTEXITCODE is looked at; a failing Invoke-WebRequest is caught.
test_proxy_ps1 ==
    << Say({"no docker"}, "Docker is not running"),
       ExitWith({"no docker"}, 1),
       RunCmd({"container exists"}, "docker stop", "continue", ""),
       RunCmd({"container exists"}, "docker rm", "continue", ""),
       RunCmd({}, "docker build", "continue", "Docker build failed"),
       ExitWith({"docker build failed"}, 1),
       Say({}, "Docker image built successfully!"),
       RunCmd({}, "docker run", "continue", "Failed to start container"),
       ExitWith({"docker run failed"}, 1),
       Say({}, "Container started successfully!"),
       RunCmd({}, "Invoke-WebRequest /", "continue", "Main site test failed"),
       Say({"request / ok", "main 200"}, "Main site is accessible"),
       Say({"request / ok", "main not 200"}, "Main site returned HTTP"),
       RunCmd({}, "Invoke-WebRequest /ctf/", "continue", "CTF proxy test failed"),
       Say({"request /ctf/ ok", "ctf accessible"}, "CTF proxy is accessible"),
       Say({"request /ctf/ ok", "ctf not accessible"}, "CTF proxy returned HTTP"),
       RunCmd({}, "Invoke-WebRequest /ctf/ content", "continue", "Path rewriting test failed"),
       Say({"request content ok", "rewritten"}, "Path rewriting is working"),
       Say({"request content ok", "not rewritten"}, "Path rewriting may not be working"),
       RunCmd({}, "Invoke-WebRequest paths", "continue", "Path test failed"),
       RunCmd({}, "Invoke-WebRequest assets", "continue", "Asset test failed"),
       RunCmd({}, "docker exec nginx -t", "continue", "Nginx configuration has errors"),
       Say({"nginx -t ok"}, "Nginx configuration is valid"),
       RunCmd({}, "docker logs", "continue", ""),
       RunCmd({"no -SkipCleanup"}, "docker stop", "continue", ""),
       RunCmd({"no -SkipCleanup"}, "docker rm", "continue", ""),
       RunCmd({"no -SkipCleanup"}, "docker rmi", "continue", "") >>
    \o TestSummary

\* The other test-proxy.ps1 of the documentation: it looks for a running
\* container only (docker ps -q), and says nothing when the container started.
test_proxy_ps1_q ==
    << Say({"no docker"}, "Docker is not running"),
       ExitWith({"no docker"}, 1),
       RunCmd({"container running"}, "docker stop", "continue", ""),
       RunCmd({"container running"}, "docker rm", "continue", ""),
       RunCmd({}, "docker build", "continue", "Docker build failed"),
       ExitWith({"docker build failed"}, 1),
       Say({}, "Docker image built successfully!"),
       RunCmd({}, "docker run", "continue", "Failed to start container"),
       ExitWith({"docker run failed"}, 1),
       RunCmd({}, "Invoke-WebRequest /", "continue", "Main site test failed"),
       Say({"request / ok", "main 200"}, "Main site is accessible"),
       Say({"request / ok", "main not 200"}, "Main site returned HTTP"),
       RunCmd({}, "Invoke-WebRequest /ctf/", "continue", "CTF proxy test failed"),
       Say({"request /ctf/ ok", "ctf accessible"}, "CTF proxy is accessible"),
       Say({"request /ctf/ ok", "ctf not accessible"}, "CTF proxy returned HTTP"),
       RunCmd({}, "Invoke-WebRequest /ctf/ content", "continue", "Path rewriting test failed"),
       Say({"request content ok", "rewritten"}, "Path rewriting is working"),
       Say({"request content ok", "not rewritten"}, "Path rewriting may not be working"),
       RunCmd({}, "Invoke-WebRequest paths", "continue", "Path test failed"),
       RunCmd({}, "Invoke-WebRequest assets", "continue", "Asset test failed"),
       RunCmd({}, "docker exec nginx -t", "continue", "Nginx configuration has errors"),
       Say({"nginx -t ok"}, "Nginx configuration is valid"),
       RunCmd({}, "docker logs", "continue", ""),
       RunCmd({"no -SkipCleanup"}, "docker stop", "continue", ""),
       RunCmd({"no -SkipCleanup"}, "docker rm", "continue", ""),
       RunCmd({"no -SkipCleanup"}, "docker rmi", "continue", "") >>
    \o TestSummary

PipelineScripts == {"test-pipeline.sh", "test-pipeline.ps1"}
PowerShellProxyTests == {"test-proxy.ps1", "test-proxy.ps1 (docker ps -q)"}
ProxyTestScripts == {"test-proxy.sh"} \cup PowerShellProxyTests

Program(script) ==
    CASE script = "test-pipeline.sh" -> test_pipeline_sh
      [] script = "test-pipeline.ps1" -> test_pipeline_ps1
      [] script = "test-proxy.sh" -> test_proxy_sh
      [] script = "test-proxy.ps1" -> test_proxy_ps1
      [] script = "test-proxy.ps1 (docker ps -q)" -> test_proxy_ps1_q
      [] OTHER -> <<>>

\* What a script finds on the machine: node ("none", "old" for a version
\* below 18, "ok"), the files of the project, docker and its daemon, a
\* container eyewebsite-test left by an earlier run ("none", "running",
\* "exited"), the nginx.conf of the image, what the site answers, and the
\* script's own switches.
NoEnv ==
    [node |-> "none", tsconfig |-> FALSE, hasTest |-> FALSE, staleDist |-> FALSE,
     docker |-> FALSE, daemon |-> FALSE, skipDocker |-> FALSE, skipCleanup |-> FALSE,
     existing |-> "none", config |-> "valid", mainStatus |-> 200, ctfStatus |-> 200,
     rewritten |-> TRUE]

\* nginx.conf as the image has it: the configuration of the README, one with
\* a directive nginx cannot parse, one without the location /ctf/ (no
\* RouteRule), one without the sub_filter directives (no RewriteRule)
Configs == {"valid", "malformed", "no location /ctf/", "no sub_filter"}

\* nginx -t, and the start of nginx: a configuration is refused when a
\* directive of it cannot be parsed; a directive that is not there is no error
NginxTestComplete(config) == config = "valid"
NginxTest(config) == config # "malformed"

NoRun ==
    [script |-> "", pc |-> 0, env |-> NoEnv, dist |-> FALSE, container |-> "none",
     ran |-> <<>>, failed |-> {}, out |-> <<>>, exit |-> -1]

StartRun(script, env) ==
    [script |-> script, pc |-> 1, env |-> env, dist |-> env.staleDist,
     container |-> env.existing,
     ran |-> <<>>, failed |-> {}, out |-> <<>>, exit |-> -1]

\* nginx of the container eyewebsite-test is serving
Serving(r) == r.container \in {"running", "running --rm"}

\* The command can succeed.  A container name is used once; a container that
\* is not running answers no request and runs no docker exec; a running one
\* is not removed; Invoke-WebRequest throws on a status of 400 and above.
Works(cmd, r) ==
    CASE cmd \in {"docker build", "docker rmi"} -> r.env.daemon
      [] cmd \in {"docker run", "docker run --rm"} -> r.env.daemon /\ r.container = "none"
      [] cmd \in {"docker stop", "docker logs"} -> r.container # "none"
      [] cmd = "docker rm" -> r.container = "exited"
      [] cmd = "docker exec nginx -t" -> Serving(r) /\ NginxTest(r.env.config)
      [] cmd \in {"probe", "curl /", "curl /ctf/", "curl /ctf/ content", "curl paths",
                  "curl assets", "Invoke-WebRequest paths",
                  "Invoke-WebRequest assets"} -> Serving(r)
      [] cmd = "Invoke-WebRequest /" -> Serving(r) /\ r.env.mainStatus < 400
      [] cmd \in {"Invoke-WebRequest /ctf/", "Invoke-WebRequest /ctf/ content"} ->
             Serving(r) /\ r.env.ctfStatus < 400
      [] OTHER -> TRUE

\* What the command leaves when it succeeded.  nginx is the process of the
\* container: the container runs as long as nginx does.
After(cmd, r) ==
    CASE cmd = "npm run build" -> [r EXCEPT !.dist = TRUE]
      [] cmd = "docker run" ->
             [r EXCEPT !.container = IF NginxTest(r.env.config) THEN "running" ELSE "exited"]
      [] cmd = "docker run --rm" ->
             [r EXCEPT !.container = IF NginxTest(r.env.config) THEN "running --rm" ELSE "none"]
      [] cmd = "docker stop" ->
             [r EXCEPT !.container = IF @ = "running --rm" THEN "none" ELSE "exited"]
      [] cmd = "docker rm" -> [r EXCEPT !.container = "none"]
      [] OTHER -> r

Ran(r) == {r.ran[i] : i \in DOMAIN r.ran}
Printed(r) == {r.out[i] : i \in DOMAIN r.out}
Succeeded(r, cmd) == cmd \in Ran(r) /\ cmd \notin r.failed

\* the conditions of the scripts' if, try and catch
Holds(cond, r) ==
    CASE cond = "no node" -> r.env.node = "none"
      [] cond = "node below 18" -> r.env.node = "old"
      [] cond = "tsconfig.json" -> r.env.tsconfig
      [] cond = "test script" -> r.env.hasTest
      [] cond = "dist" -> r.dist
      [] cond = "no dist" -> ~r.dist
      [] cond = "docker" -> r.env.docker
      [] cond = "no docker" -> ~r.env.docker
      [] cond = "docker not running" -> ~r.env.daemon
      [] cond = "container running" -> r.env.existing = "running"
      [] cond = "container exists" -> r.env.existing # "none"
      [] cond = "docker run failed" -> "docker run" \in r.failed
      [] cond = "main 200" -> r.env.mainStatus = 200
      [] cond = "main not 200" -> r.env.mainStatus # 200
      [] cond = "ctf accessible" -> r.env.ctfStatus \in {200, 301, 302}
      [] cond = "ctf not accessible" -> r.env.ctfStatus \notin {200, 301, 302}
      [] cond = "content ok" -> Succeeded(r, "curl /ctf/ content")
      [] cond = "rewritten" -> r.env.rewritten
      [] cond = "not rewritten" -> ~(r.env.rewritten /\ Succeeded(r, "curl /ctf/ content"))
      [] cond = "request / ok" -> Succeeded(r, "Invoke-WebRequest /")
      [] cond = "request /ctf/ ok" -> Succeeded(r, "Invoke-WebRequest /ctf/")
      [] cond = "request content ok" -> Succeeded(r, "Invoke-WebRequest /ctf/ content")
      [] cond = "nginx -t ok" -> Succeeded(r, "docker exec nginx -t")
      [] cond = "no -SkipCleanup" -> ~r.env.skipCleanup
      [] cond = "no -SkipDocker" -> ~r.env.skipDocker
      [] cond = "docker build ok" -> Succeeded(r, "docker build")
      [] cond = "docker build failed" -> "docker build" \in r.failed
      [] cond = "probe ok" -> Succeeded(r, "probe")
      [] OTHER -> FALSE

Running == run.exit = -1 /\ run.pc \in 1..Len(Program(run.script))

Instruction == Program(run.script)[run.pc]

Taken == \A cond \in Instruction.when : Holds(cond, run)

\* The instruction is not for this run: an untaken branch.
SkipInstruction ==
    /\ Running
    /\ ~Taken
    /\ run' = [run EXCEPT !.pc = @ + 1]
    /\ UNCHANGED pureVars
    /\ UNCHANGED proxyVars

\* A command runs and succeeds (ok) or fails; it fails when it cannot
\* succeed, and may fail for a reason of its own.
RunCommand(ok) ==
    /\ Running
    /\ Taken
    /\ Instruction.op = "run"
    /\ ok => Works(Instruction.arg, run)
    /\ \/ ok
       \/ ~Works(Instruction.arg, run)
       \/ Cardinality(run.failed) < MaxFailures
    /\ LET i == Instruction
           r == [run EXCEPT !.ran = Append(@, i.arg)]
       IN IF ok
          THEN run' = [After(i.arg, r) EXCEPT !.pc = @ + 1]
          ELSE run' = [r EXCEPT !.failed = @ \cup {i.arg},
                                !.out = IF i.msg = "" THEN @ ELSE Append(@, i.msg),
                                !.pc = IF i.onfail = "exit" THEN @ ELSE @ + 1,
                                !.exit = IF i.onfail = "exit" THEN 1 ELSE @]
    /\ UNCHANGED pureVars
    /\ UNCHANGED proxyVars

PrintLine ==
    /\ Running
    /\ Taken
    /\ Instruction.op = "say"
    /\ run' = [run EXCEPT !.out = Append(@, Instruction.msg), !.pc = @ + 1]
    /\ UNCHANGED pureVars
    /\ UNCHANGED proxyVars

\* Variant: exit is passed over; the script ends at its last line only.
ExitScriptAtEndOnly ==
    /\ run.exit = -1
    /\ run.script # ""
    /\ IF run.pc > Len(Program(run.script))
       THEN run' = [run EXCEPT !.exit = 0]
       ELSE /\ Taken
            /\ Instruction.op = "exit"
            /\ run' = [run EXCEPT !.pc = @ + 1]
    /\ UNCHANGED pureVars
    /\ UNCHANGED proxyVars

\* exit, or the end of the script
ExitScript ==
    /\ run.exit = -1
    /\ run.script # ""
    /\ IF run.pc > Len(Program(run.script))
       THEN run' = [run EXCEPT !.exit = 0]
       ELSE /\ Taken
            /\ Instruction.op = "exit"
            /\ run' = [run EXCEPT !.exit = Instruction.code]
    /\ UNCHANGED pureVars
    /\ UNCHANGED proxyVars

---------------------------------------------------------------------------
(* The proxy: one connection per client *)

Idle ==
    [st |-> "idle", req |-> NoRequest, up |-> NoRequest, seen |-> NoEntry,
     arrivedAt |-> 0, triedAt |-> 0, calls |-> 0, failures |-> <<>>, outcome |-> "none", raw |-> NoResponse,
     source |-> "none", resp |-> NoResponse, doneAt |-> 0]

ProxyIdle ==
    /\ proxy_cache = "off"
    /\ clock = 0
    /\ ticks = 0
    /\ cache = <<>>
    /\ conn = [c \in Clients |-> Idle]

Init ==
    /\ texts = <<>>
    /\ ctype = "text/html"
    /\ uri = <<"/">>
    /\ located = NotLocated
    /\ proxy_cache \in {"off", "ctf_cache"}
    /\ clock = 0
    /\ ticks = 0
    /\ cache = <<>>
    /\ conn = [c \in Clients |-> Idle]
    /\ run = NoRun

\* A request arrives.  The location decides who answers; a proxied request is
\* answered from the cache when a fresh entry exists, and goes upstream
\* otherwise.
Request(c, req) ==
    /\ conn[c].st = "idle"
    /\ LET h == Route(req.path)
           arrived == [conn[c] EXCEPT !.req = req, !.arrivedAt = clock]
       IN CASE h = "static" ->
                 conn' = [conn EXCEPT ![c] =
                     [arrived EXCEPT !.st = "done", !.source = "static",
                                     !.resp = StaticPage, !.doneAt = clock]]
            [] h = "redirect" ->
                 conn' = [conn EXCEPT ![c] =
                     [arrived EXCEPT !.st = "done", !.source = "nginx",
                                     !.resp = SlashRedirect(req.path), !.doneAt = clock]]
            [] OTHER ->
                 LET e == IF Caching(req) THEN Lookup(UpstreamPath(req.path)) ELSE NoEntry
                 IN IF e # NoEntry /\ ~Expired(e)
                    THEN conn' = [conn EXCEPT ![c] =
                             [arrived EXCEPT !.st = "done", !.seen = e, !.source = "cache",
                                             !.resp = Downstream(e.resp), !.doneAt = clock]]
                    ELSE conn' = [conn EXCEPT ![c] =
                             [arrived EXCEPT !.st = "upstream", !.seen = e, !.calls = 1,
                                             !.triedAt = clock,
                                             !.up = UpstreamRequest(c, req)]]
    /\ cache' = IF Route(req.path) = "proxy" /\ Caching(req)
                THEN Touch(UpstreamPath(req.path))
                ELSE cache
    /\ UNCHANGED <<proxy_cache, clock, ticks>>
    /\ UNCHANGED pureVars
    /\ UNCHANGED scriptVars

\* The upstream answers with response u.
UpstreamResponds(c, u) ==
    /\ conn[c].st = "upstream"
    /\ LET r == conn[c]
           got == [r EXCEPT !.outcome = "response", !.raw = u, !.st = "done", !.doneAt = clock]
       IN IF Caching(r.req) /\ u.status \in use_stale_statuses /\ r.seen # NoEntry
          THEN /\ conn' = [conn EXCEPT ![c] =
                      [got EXCEPT !.source = "stale", !.resp = Downstream(r.seen.resp)]]
               /\ cache' = cache
          ELSE /\ conn' = [conn EXCEPT ![c] =
                      [got EXCEPT !.source = "upstream", !.resp = Downstream(u)]]
               /\ cache' = IF Caching(r.req) /\ proxy_cache_valid(u.status) > 0
                           THEN Store(r.up.path, u)
                           ELSE cache
    /\ UNCHANGED <<proxy_cache, clock, ticks>>
    /\ UNCHANGED pureVars
    /\ UNCHANGED scriptVars

\* Variant: the answer made for a failure is written to the cache.
UpstreamFailsIntoCache(c, kind) ==
    /\ conn[c].st = "upstream"
    /\ conn' = [conn EXCEPT ![c] =
           [@ EXCEPT !.outcome = kind, !.st = "done", !.doneAt = clock,
                     !.source = "nginx", !.resp = GatewayError(kind)]]
    /\ cache' = Store(conn[c].up.path, GatewayError(kind))
    /\ UNCHANGED <<proxy_cache, clock, ticks>>
    /\ UNCHANGED pureVars
    /\ UNCHANGED scriptVars

\* The upstream cannot be reached: the connection is refused ("error"), or
\* nothing came before the timeout ("timeout"); or what it sent is no HTTP
\* response ("invalid_header").
UpstreamFails(c, kind) ==
    /\ conn[c].st = "upstream"
    /\ kind = "timeout" => clock = conn[c].triedAt + UpstreamTimeout
    /\ LET r == conn[c]
           got == [r EXCEPT !.outcome = kind, !.st = "done", !.doneAt = clock]
       IN IF Caching(r.req) /\ kind \in use_stale_failures /\ r.seen # NoEntry
          THEN conn' = [conn EXCEPT ![c] =
                   [got EXCEPT !.source = "stale", !.resp = Downstream(r.seen.resp)]]
          ELSE conn' = [conn EXCEPT ![c] =
                   [got EXCEPT !.source = "nginx", !.resp = GatewayError(kind)]]
    /\ UNCHANGED <<proxy_cache, clock, ticks, cache>>
    /\ UNCHANGED pureVars
    /\ UNCHANGED scriptVars

\* No proxy_next_upstream in the location: the default, error timeout.
proxy_next_upstream == {"error", "timeout"}

\* Variant: proxy_next_upstream error timeout non_idempotent.
non_idempotent == {"GET", "POST"}

\* requests that are passed to the next server also after they were sent
Idempotent == {"GET"}

\* The attempt failed and the upstream's host name has another address that
\* was not tried for this request: the request is passed to it.  A refused
\* connection ("error") comes before anything was sent; after a timeout a
\* request that is not idempotent is not sent again.
UpstreamRetries(c, kind) ==
    /\ conn[c].st = "upstream"
    /\ kind \in proxy_next_upstream
    /\ conn[c].calls < MaxAddresses
    /\ kind = "timeout" => clock = conn[c].triedAt + UpstreamTimeout
    /\ kind = "error" \/ conn[c].req.method \in Idempotent
    /\ conn' = [conn EXCEPT ![c].calls = @ + 1, ![c].triedAt = clock,
                            ![c].failures = Append(@, kind)]
    /\ UNCHANGED <<proxy_cache, clock, ticks, cache>>
    /\ UNCHANGED pureVars
    /\ UNCHANGED scriptVars

\* The client has its answer; the connection takes the next request.
Close(c) ==
    /\ conn[c].st = "done"
    /\ conn' = [conn EXCEPT ![c] = Idle]
    /\ UNCHANGED <<proxy_cache, clock, ticks, cache>>
    /\ UNCHANGED pureVars
    /\ UNCHANGED scriptVars

\* The cache manager removes the entry of a key: one that was not looked up
\* for the inactive time, or, while the cache is larger than max_size, the
\* least recently used one.
CacheManager(key) ==
    /\ key \in DOMAIN cache
    /\ ~InUse(key)
    /\ Inactive(cache[key]) \/ (CacheSize > max_size /\ LeastRecentlyUsed(key))
    /\ cache' = [k \in (DOMAIN cache) \ {key} |-> cache[k]]
    /\ UNCHANGED <<proxy_cache, clock, ticks, conn>>
    /\ UNCHANGED pureVars
    /\ UNCHANGED scriptVars

\* Time passes, by d minutes, but not past the timeout of a waiting request.
Tick(d) ==
    /\ ticks < MaxTicks
    /\ \A c \in Clients :
           conn[c].st = "upstream" => clock + d <= conn[c].triedAt + UpstreamTimeout
    /\ clock' = clock + d
    /\ ticks' = ticks + 1
    /\ UNCHANGED <<proxy_cache, cache, conn>>
    /\ UNCHANGED pureVars
    /\ UNCHANGED scriptVars

---------------------------------------------------------------------------
(* Inputs *)

Path_ctf == <<"/", "c", "t", "f", "/">>
Path_ctf_x == <<"/", "c", "t", "f", "/", "x">>
Path_ctf_noslash == <<"/", "c", "t", "f">>
Path_x == <<"/", "x">>

PageBody == <<"href=", "dq", "/", "x">>

Get(p) ==
    [method |-> "GET", path |-> p, host |-> "site", scheme |-> "http",
     xrealip |-> "", xff |-> <<>>, xfproto |-> "", body |-> ""]

\* requests and upstream responses of the caching scenarios
CacheRequests == {Get(Path_ctf), Get(Path_ctf_x)}

UpstreamHeaders == {"Content-Security-Policy", "X-Frame-Options", "ETag"}

CacheResponses ==
    { [status |-> s, ctype |-> "text/html", headers |-> UpstreamHeaders,
       location |-> <<>>, body |-> PageBody,
       size |-> IF s = 200 THEN 6 ELSE 1] :
      s \in {200, 404, 500} }

\* requests of every kind: proxied, redirected and local paths, either method,
\* with and without forwarding headers of the client's own
AllRequests ==
    { [method |-> m, path |-> p, host |-> h, scheme |-> sc,
       xrealip |-> f.xrealip, xff |-> f.xff, xfproto |-> f.xfproto, body |-> b] :
      m \in {"GET", "POST"},
      p \in {Path_ctf, Path_ctf_x, Path_ctf_noslash, Path_x},
      h \in {"site", "other"},
      sc \in {"http", "https"},
      f \in { [xrealip |-> "", xff |-> <<>>, xfproto |-> ""],
              [xrealip |-> "6.6.6.6", xff |-> <<"6.6.6.6">>, xfproto |-> "https"],
              [xrealip |-> "", xff |-> <<"7.7.7.7", "6.6.6.6">>, xfproto |-> "http"] },
      b \in {"", "data"} }

\* upstream responses of every kind
AllResponses ==
    { [status |-> s, ctype |-> ct, headers |-> h,
       location |-> IF s = 301 THEN Path_x ELSE <<>>, body |-> b, size |-> 1] :
      s \in {200, 404, 301, 500},
      ct \in ContentTypes,
      h \in {{}, {"ETag"}, {"Content-Security-Policy"}, proxy_hide_header \cup {"ETag"}},
      b \in {PageBody, <<"url(", "/", "x">>} }

TickSteps == {Ttl404, Ttl200}

\* Two clients; the first asks for either path, the second for /ctf/, so
\* that two requests for one key can be under way together.
Next ==
    \/ \E req \in CacheRequests : Request("c1", req)
    \/ Request("c2", Get(Path_ctf))
    \/ \E c \in Clients, u \in CacheResponses : UpstreamResponds(c, u)
    \/ \E c \in Clients, kind \in {"error", "timeout"} : UpstreamFails(c, kind)
    \/ \E c \in Clients : Close(c)
    \/ \E d \in TickSteps : Tick(d)

Spec == Init /\ [][Next]_vars

\* one client, every kind of request
NextRequests ==
    \/ \E req \in AllRequests : Request("c1", req)
    \/ \E u \in {r \in CacheResponses : r.status = 200} : UpstreamResponds("c1", u)
    \/ \E kind \in {"error", "timeout"} : UpstreamFails("c1", kind)
    \/ \E kind \in {"error", "timeout"} : UpstreamRetries("c1", kind)
    \/ Close("c1")
    \/ \E d \in TickSteps : Tick(d)

SpecRequests == Init /\ [][NextRequests]_vars

\* one client, every kind of upstream response
NextResponses ==
    \/ Request("c1", Get(Path_ctf))
    \/ \E u \in AllResponses : UpstreamResponds("c1", u)
    \/ \E kind \in {"error", "timeout"} : UpstreamFails("c1", kind)
    \/ Close("c1")
    \/ \E d \in TickSteps : Tick(d)

SpecResponses == Init /\ [][NextResponses]_vars

\* Requests for one path, a second address of the upstream for the first
\* client only, and the clock in steps of one minute, so that the check of
\* what eventually happens stays small.
FairResponses == {r \in CacheResponses : r.status = 404}

NextFair ==
    \/ \E c \in Clients : Request(c, Get(Path_ctf))
    \/ \E c \in Clients, u \in FairResponses : UpstreamResponds(c, u)
    \/ \E c \in Clients, kind \in {"error", "timeout"} : UpstreamFails(c, kind)
    \/ \E kind \in {"error", "timeout"} : UpstreamRetries("c1", kind)
    \/ \E c \in Clients : Close(c)
    \/ Tick(Ttl404)

\* The upstream answers, or the connection fails, or the timeout ends the
\* wait: a request that went upstream does not wait forever.
UpstreamEvent(c) ==
    \/ \E u \in FairResponses : UpstreamResponds(c, u)
    \/ \E kind \in {"error", "timeout"} : UpstreamFails(c, kind)

FairSpec == Init /\ [][NextFair]_vars /\ \A c \in Clients : WF_vars(UpstreamEvent(c))

\* Two clients on one path, an upstream that answers 200 or fails in any of
\* the three ways.
FailureKinds == {"error", "timeout", "invalid_header"}

NextFailures ==
    \/ \E c \in Clients : Request(c, Get(Path_ctf))
    \/ \E c \in Clients, u \in {r \in CacheResponses : r.status = 200} : UpstreamResponds(c, u)
    \/ \E c \in Clients, kind \in FailureKinds : UpstreamFails(c, kind)
    \/ \E c \in Clients : Close(c)
    \/ Tick(Ttl404)

SpecFailures == Init /\ [][NextFailures]_vars

\* The enhanced caching with its cache manager: two clients, two keys,
\* cacheable responses that are small or large.
ManagerResponses ==
    { [status |-> s, ctype |-> "text/html", headers |-> UpstreamHeaders,
       location |-> <<>>, body |-> PageBody, size |-> IF s = 200 THEN 6 ELSE 1] :
      s \in {200, 404} }

InitManager == Init /\ proxy_cache = "ctf_cache"

NextManager ==
    \/ \E req \in CacheRequests : Request("c1", req)
    \/ Request("c2", Get(Path_ctf))
    \/ \E c \in Clients, u \in ManagerResponses : UpstreamResponds(c, u)
    \/ \E c \in Clients : Close(c)
    \/ \E key \in {UpstreamPath(r.path) : r \in CacheRequests} : CacheManager(key)
    \/ \E d \in TickSteps : Tick(d)

SpecManager == InitManager /\ [][NextManager]_vars

\* The pipeline scripts, on every kind of machine.
PipelineEnvs ==
    { [NoEnv EXCEPT !.node = n, !.tsconfig = ts, !.hasTest = t, !.staleDist = sd,
                    !.docker = d, !.daemon = d, !.skipDocker = sk] :
      n \in {"none", "old", "ok"}, ts \in BOOLEAN, t \in BOOLEAN, sd \in BOOLEAN,
      d \in BOOLEAN, sk \in BOOLEAN }

InitPipeline ==
    /\ texts = <<>>
    /\ ctype = "text/html"
    /\ uri = <<"/">>
    /\ located = NotLocated
    /\ ProxyIdle
    /\ run \in { r \in {StartRun(script, e) : script \in PipelineScripts, e \in PipelineEnvs} :
                      r.script = "test-pipeline.ps1" \/ ~r.env.skipDocker }

NextPipeline ==
    \/ SkipInstruction
    \/ \E ok \in BOOLEAN : RunCommand(ok)
    \/ PrintLine
    \/ ExitScript

SpecPipeline == InitPipeline /\ [][NextPipeline]_vars

\* The reverse-proxy test scripts, on every kind of machine and image.
ProxyTestEnvs ==
    { [NoEnv EXCEPT !.node = "ok", !.docker = d[1], !.daemon = d[2], !.existing = ex,
                    !.config = cf, !.skipCleanup = sk, !.mainStatus = ms,
                    !.ctfStatus = cs, !.rewritten = rw] :
      d \in {<<FALSE, FALSE>>, <<TRUE, FALSE>>, <<TRUE, TRUE>>},
      ex \in {"none", "running", "exited"}, cf \in Configs, sk \in BOOLEAN,
      ms \in {200, 404}, cs \in {200, 502}, rw \in BOOLEAN }

InitProxyTest ==
    /\ texts = <<>>
    /\ ctype = "text/html"
    /\ uri = <<"/">>
    /\ located = NotLocated
    /\ ProxyIdle
    /\ run \in { r \in {StartRun(script, e) : script \in ProxyTestScripts, e \in ProxyTestEnvs} :
                      /\ r.script \in PowerShellProxyTests \/ ~r.env.skipCleanup
                      /\ r.env.daemon \/ r.env.existing = "none" }

SpecProxyTest == InitProxyTest /\ [][NextPipeline]_vars

---------------------------------------------------------------------------
(* Pure-function specifications *)

InitRewrite ==
    /\ texts \in {<<b>> : b \in Bodies}
    /\ ctype \in {"text/html", "application/octet-stream"}
    /\ uri = <<"/">>
    /\ located = NotLocated
    /\ ProxyIdle
    /\ run = NoRun

\* the body filter runs over the latest text
ApplyBodyFilter ==
    /\ Len(texts) <= 2
    /\ texts' = Append(texts, BodyFilter(ctype, texts[Len(texts)]))
    /\ UNCHANGED <<ctype, uri, located>>
    /\ UNCHANGED proxyVars
    /\ UNCHANGED scriptVars

SpecRewrite == InitRewrite /\ [][ApplyBodyFilter]_vars

\* Bodies for the order of the rules: every short body, and longer bodies of
\* the tokens of which href="/, url("/ and url(/ are made, so that two
\* different rules have occurrences in one body.
UrlTokens == {"href=", "url(", "dq", "/"}

InitOrder ==
    /\ texts \in {<<b>> : b \in SeqsUpTo(BodyTokens, MaxOrderLen)
                                  \cup SeqsUpTo(UrlTokens, MaxUrlLen)}
    /\ ctype = "text/html"
    /\ uri = <<"/">>
    /\ located = NotLocated
    /\ ProxyIdle
    /\ run = NoRun

SpecOrder == InitOrder /\ [][ApplyBodyFilter]_vars

InitRouter ==
    /\ texts = <<>>
    /\ ctype = "text/html"
    /\ uri \in Paths
    /\ located = NotLocated
    /\ ProxyIdle
    /\ run = NoRun

Locate ==
    /\ located.handler = "none"
    /\ located' = [handler |-> Route(uri),
                   upstream |-> IF Route(uri) = "proxy" THEN UpstreamPath(uri) ELSE <<>>]
    /\ UNCHANGED <<texts, ctype, uri>>
    /\ UNCHANGED proxyVars
    /\ UNCHANGED scriptVars

SpecRouter == InitRouter /\ [][Locate]_vars

---------------------------------------------------------------------------
(* Properties of the Body Rewriter *)

Html(b) == BodyFilter("text/html", b)

\* the occurrences of the rule patterns in b: <<position, rule>>
Occurrences(b) ==
    {o \in (1..Len(b)) \X (1..Len(sub_filter_rules)) :
        OccursAt(sub_filter_rules[o[2]].match, b, o[1])}

LastOf(o) == o[1] + Len(sub_filter_rules[o[2]].match) - 1

\* how many occurrences end before position i
EndedBefore(b, i) == Cardinality({o \in Occurrences(b) : LastOf(o) < i})

\* C1 as stated: a text/html body rewritten twice is the body rewritten once.
C1_RewriteTwiceIsOnce ==
    (Len(texts) = 3 /\ ctype = "text/html") => texts[3] = texts[2]

\* C1 (amended): for a text/html body, rewriting the rewritten text again gives
\* the same text only when the body holds no occurrence of a rule pattern;
\* otherwise every occurrence is rewritten once more (href="/ctf/ becomes
\* href="/ctf/ctf/), the second pass adding ctf/ again after each of them.
C1_SecondPassRewritesAgain ==
    (Len(texts) = 3 /\ ctype = "text/html") =>
        /\ (texts[3] = texts[2]) <=> (Occurrences(texts[1]) = {})
        /\ Len(texts[3]) = Len(texts[1]) + 4 * Cardinality(Occurrences(texts[1]))
        /\ OccursAt(<<"href=", "dq", "/", "ctf", "/">>, texts[2], 1)
               => OccursAt(<<"href=", "dq", "/", "ctf", "/", "ctf", "/">>, texts[3], 1)

C1_Witness ==
    /\ Len(texts) = 3
    /\ ctype = "text/html"
    /\ texts[1] = <<"href=", "dq", "/", "dq">>
    /\ texts[2] = <<"href=", "dq", "/", "ctf", "/", "dq">>
    /\ texts[3] = <<"href=", "dq", "/", "ctf", "/", "ctf", "/", "dq">>

\* the rewriting examples of the documentation
C2_Table ==
    /\ Html(<<"href=", "dq", "/", "dq">>) = <<"href=", "dq", "/", "ctf", "/", "dq">>
    /\ Html(<<"src=", "dq", "/", "x", "dq">>) = <<"src=", "dq", "/", "ctf", "/", "x", "dq">>
    /\ Html(<<"action=", "dq", "/", "x", "dq">>)
           = <<"action=", "dq", "/", "ctf", "/", "x", "dq">>
    /\ Html(<<"url(", "dq", "/", "x", "/", "x", "dq", "x">>)
           = <<"url(", "dq", "/", "ctf", "/", "x", "/", "x", "dq", "x">>

\* C2: in a rewritable body every occurrence of a rule pattern is replaced by
\* the pattern with /ctf/ for its last slash (ctf/ is put in after it), from
\* left to right, and all other text is copied as it is; the examples of the
\* documentation come out as documented.
C2_EveryOccurrenceRewritten ==
    (Len(texts) >= 2 /\ ctype = "text/html") =>
        LET b == texts[1]
            out == texts[2]
        IN /\ Len(out) = Len(b) + 2 * Cardinality(Occurrences(b))
           /\ \A i \in 1..Len(b) : out[i + 2 * EndedBefore(b, i)] = b[i]
           /\ \A o \in Occurrences(b) :
                  LET e == LastOf(o) + 2 * EndedBefore(b, LastOf(o))
                  IN out[e + 1] = "ctf" /\ out[e + 2] = "/"
           /\ C2_Table

C2_Witness ==
    /\ Len(texts) >= 2
    /\ ctype = "text/html"
    /\ texts[1] = <<"url(", "/", "url(", "/">>
    /\ texts[2] = <<"url(", "/", "ctf", "/", "url(", "/", "ctf", "/">>

---------------------------------------------------------------------------
(* Properties of the Router *)

\* C3: a path that begins with /ctf/ is given to the /ctf/ location, not to the
\* static files, and goes upstream without its leading /ctf, so it begins
\* with a slash.
C3_CtfPrefixStripped ==
    (located.handler # "none" /\ IsPrefix(<<"/", "c", "t", "f", "/">>, uri)) =>
        /\ located.handler = "proxy"
        /\ located.upstream = SubSeq(uri, 5, Len(uri))
        /\ located.upstream[1] = "/"

C3_Witness ==
    /\ uri = <<"/", "c", "t", "f", "/", "x">>
    /\ located = [handler |-> "proxy", upstream |-> <<"/", "x">>]

\* C8 as stated: the longest matching prefix is selected, and a path without
\* the /ctf/ prefix, /ctf and /ctfx among them, is served by the static files.
C8_NoMatchServedLocally ==
    located.handler # "none" =>
        IF IsPrefix(<<"/", "c", "t", "f", "/">>, uri)
        THEN located.handler = "proxy"
        ELSE located.handler = "static"

\* C8 (amended): the longest matching prefix is selected, and a path without
\* the /ctf/ prefix is served by the static files, /ctfx among them, except
\* the path /ctf itself: the prefix without its last slash is answered with a
\* redirect to /ctf/.
C8_NoMatchLocalButSlashRedirect ==
    located.handler # "none" =>
        CASE IsPrefix(<<"/", "c", "t", "f", "/">>, uri) -> located.handler = "proxy"
          [] uri = <<"/", "c", "t", "f">> -> located.handler = "redirect"
          [] OTHER -> located.handler = "static"

C8_Witness ==
    /\ uri = <<"/", "c", "t", "f", "x">>
    /\ located.handler = "static"

---------------------------------------------------------------------------
(* Properties of the Forwarder and the Cache *)

\* the responses that came through the /ctf/ location from the upstream or
\* from the cache
Proxied(r) == r.st = "done" /\ r.source \in {"upstream", "cache", "stale"}

\* the upstream response behind a proxied answer: the one just received, or
\* the stored one
Origin(r) == IF r.source = "upstream" THEN r.raw ELSE r.seen.resp

\* C4: a response whose Content-Type is none of text/html, text/css and
\* application/javascript reaches the client with the body the upstream sent,
\* also when the body holds text that matches a rewrite pattern.
C4_UnlistedTypeUntouched ==
    \A c \in Clients :
        (/\ Proxied(conn[c])
         /\ Origin(conn[c]).ctype \notin {"text/html", "text/css", "application/javascript"})
        => /\ conn[c].resp.body = Origin(conn[c]).body
           /\ conn[c].resp.ctype = Origin(conn[c]).ctype

C4_Witness ==
    \E c \in Clients :
        /\ conn[c].st = "done"
        /\ conn[c].source = "cache"
        /\ conn[c].seen.resp.ctype = "application/octet-stream"
        /\ conn[c].seen.resp.body = <<"href=", "dq", "/", "x">>
        /\ conn[c].resp.body = <<"href=", "dq", "/", "x">>

Found(r, status) == r.st # "idle" /\ r.seen # NoEntry /\ r.seen.resp.status = status

\* a cached 200 is served, without an upstream call, to a request that comes
\* before one hour has passed since it was stored
C6_Fresh200Served ==
    \A c \in Clients :
        (Found(conn[c], 200) /\ conn[c].arrivedAt < conn[c].seen.storedAt + 60)
        => /\ conn[c].st = "done"
           /\ conn[c].source = "cache"
           /\ conn[c].calls = 0
           /\ conn[c].resp.status = 200

\* C6 as stated: a cached 200 is served without an upstream call until one
\* hour has passed; a cached 404 is no longer served once one minute has
\* passed, and the request that comes then goes upstream.
C6_Expired404NotServed ==
    /\ C6_Fresh200Served
    /\ \A c \in Clients :
           (Found(conn[c], 404) /\ conn[c].arrivedAt > conn[c].seen.storedAt + 1)
           => /\ conn[c].calls = 1
              /\ conn[c].st = "done" => conn[c].source = "upstream"

\* C6 (amended): a cached 200 is served without an upstream call until one
\* hour has passed; once one minute has passed a cached 404 is no longer
\* served without an upstream call: every request that comes then goes
\* upstream, and the expired 404 is served only when that call fails (no
\* connection, timeout, or a 500, 502, 503 or 504 from the upstream).
C6_Expired404Refetched ==
    /\ C6_Fresh200Served
    /\ \A c \in Clients :
           (Found(conn[c], 404) /\ conn[c].arrivedAt > conn[c].seen.storedAt + 1)
           => /\ conn[c].calls = 1
              /\ conn[c].st = "done" =>
                     \/ conn[c].source = "upstream"
                     \/ /\ conn[c].source = "stale"
                        /\ \/ conn[c].outcome \in {"error", "timeout"}
                           \/ conn[c].raw.status \in {500, 502, 503, 504}

C6_Witness ==
    \E c, d \in Clients :
        /\ Found(conn[c], 200)
        /\ conn[c].arrivedAt = conn[c].seen.storedAt + 1
        /\ conn[c].source = "cache"
        /\ Found(conn[d], 404)
        /\ conn[d].arrivedAt = conn[d].seen.storedAt + 2
        /\ conn[d].st = "upstream"

\* a request whose upstream call failed: no connection, or the timeout
Failed(r) == r.st = "done" /\ r.outcome \in {"error", "timeout"}

\* C7 as stated: when the upstream refuses the connection or times out, the
\* client gets a gateway error.
C7_FailureGives502 ==
    \A c \in Clients : Failed(conn[c]) => conn[c].resp.status \in {502, 504}

\* C7 (amended): when the upstream refuses the connection or times out, the
\* client gets, no later than the timeout of the last connection attempt, a
\* gateway error (502 for the refused connection, 504 for the timeout) or,
\* when the cache is on and the request found an expired entry for its key,
\* that stale entry; no request waits forever.
C7_FailureGives502OrStale ==
    /\ [](\A c \in Clients :
            /\ Failed(conn[c]) =>
                   IF proxy_cache # "off" /\ conn[c].seen # NoEntry
                   THEN /\ conn[c].source = "stale"
                        /\ conn[c].resp.status = conn[c].seen.resp.status
                   ELSE /\ conn[c].source = "nginx"
                        /\ conn[c].resp.status =
                               (IF conn[c].outcome = "timeout" THEN 504 ELSE 502)
            /\ conn[c].st = "upstream" => clock <= conn[c].triedAt + 1)
    /\ \A c \in Clients : (conn[c].st = "upstream") ~> (conn[c].st = "done")

C7_Witness ==
    \E c, d \in Clients :
        /\ Failed(conn[c])
        /\ conn[c].outcome = "timeout"
        /\ conn[c].resp.status = 504
        /\ conn[c].doneAt = conn[c].triedAt + UpstreamTimeout
        /\ Failed(conn[d])
        /\ conn[d].source = "stale"

\* C9 as stated: the upstream request carries the four forwarding headers with
\* the proxy's own values, whatever the client sent for them, and the method
\* and the body of the client's request.
C9_ForwardingHeadersOverwritten ==
    \A c \in Clients :
        conn[c].calls = 1 =>
            /\ conn[c].up.method = conn[c].req.method
            /\ conn[c].up.body = conn[c].req.body
            /\ conn[c].up.host = conn[c].req.host
            /\ conn[c].up.xrealip = remote_addr(c)
            /\ conn[c].up.xfproto = conn[c].req.scheme
            /\ conn[c].up.xff = <<remote_addr(c)>>

\* C9 (amended): the upstream request carries the four forwarding headers and
\* the method and the body of the client's request; X-Real-IP and
\* X-Forwarded-Proto are the client's address and the scheme of the request
\* whatever the client sent for them, Host is the host the request named, and
\* X-Forwarded-For is the client's own X-Forwarded-For, when it sent one,
\* with the client's address added at its end.
C9_ForwardedForExtended ==
    \A c \in Clients :
        conn[c].calls = 1 =>
            /\ conn[c].up.method = conn[c].req.method
            /\ conn[c].up.body = conn[c].req.body
            /\ conn[c].up.host = conn[c].req.host
            /\ conn[c].up.xrealip = remote_addr(c)
            /\ conn[c].up.xfproto = conn[c].req.scheme
            /\ conn[c].up.xff = conn[c].req.xff \o <<remote_addr(c)>>

C9_Witness ==
    \E c \in Clients :
        /\ conn[c].st = "upstream"
        /\ conn[c].req.method = "POST"
        /\ conn[c].req.body = "data"
        /\ conn[c].req.xff = <<"6.6.6.6">>
        /\ conn[c].req.xrealip = "6.6.6.6"
        /\ conn[c].up.xff = <<"6.6.6.6", c>>
        /\ conn[c].up.xrealip = c

---------------------------------------------------------------------------
(* Properties of the cache manager and of stale entries *)

\* the entry of key k is no longer in the cache after the step
Removed(k) == k \in DOMAIN cache /\ k \notin DOMAIN cache'

\* the entry of key k is another stored response after the step
Replaced(k) ==
    /\ k \in DOMAIN cache
    /\ k \in DOMAIN cache'
    /\ \/ cache'[k].resp # cache[k].resp
       \/ cache'[k].storedAt # cache[k].storedAt
       \/ cache'[k].expiresAt # cache[k].expiresAt

C12_StaleOnlyWhenUnreachable ==
    \A c \in Clients :
        (conn[c].st = "done" /\ conn[c].source = "stale")
        => conn[c].outcome \in {"error", "timeout"}

\* C12 (amended): a stale entry is served only with the cache on, to a request
\* that found the entry expired, and when the upstream could not be reached
\* or answered 500, 502, 503 or 504; a request that found an expired entry
\* goes upstream, any other answer of the upstream is passed on, and a 200 or
\* a 404 among them takes the place of the entry.
C12_StaleWhenUnreachableOr5xx ==
    /\ [](\A c \in Clients :
             (conn[c].st = "done" /\ conn[c].source = "stale") =>
                 /\ proxy_cache = "ctf_cache"
                 /\ conn[c].seen # NoEntry
                 /\ conn[c].seen.expiresAt < conn[c].arrivedAt
                 /\ conn[c].calls = 1
                 /\ conn[c].resp.status = conn[c].seen.resp.status
                 /\ \/ conn[c].outcome \in {"error", "timeout"}
                    \/ /\ conn[c].outcome = "response"
                       /\ conn[c].raw.status \in {500, 502, 503, 504})
    /\ [][\A c \in Clients :
             (/\ conn[c].st = "upstream"
              /\ conn[c].seen # NoEntry
              /\ conn'[c].st = "done"
              /\ conn'[c].outcome = "response"
              /\ conn'[c].raw.status \notin {500, 502, 503, 504})
             => /\ conn'[c].source = "upstream"
                /\ conn'[c].resp.status = conn'[c].raw.status
                /\ conn'[c].raw.status \in {200, 404} =>
                       /\ cache'[conn[c].up.path].resp = conn'[c].raw
                       /\ cache'[conn[c].up.path].storedAt = clock]_vars

C12_Witness ==
    \E c \in Clients :
        /\ conn[c].st = "done"
        /\ conn[c].source = "stale"
        /\ conn[c].outcome = "response"
        /\ conn[c].raw.status = 500
        /\ conn[c].seen.resp.status = 200
        /\ conn[c].resp.status = 200

---------------------------------------------------------------------------
(* Properties of the local scripts *)

\* C13: in either pipeline script npm run build runs only when npm ci and
\* npm run lint ran and succeeded and neither tsc nor npm test failed, and
\* npm audit runs only after npm run build ran and succeeded.
C13_BuildOnlyAfterLintAndTest ==
    run.script \in {"test-pipeline.sh", "test-pipeline.ps1"} =>
        /\ "npm run build" \in Ran(run) =>
               /\ Succeeded(run, "npm ci")
               /\ Succeeded(run, "npm run lint")
               /\ run.failed \cap {"npx tsc", "npm test"} = {}
        /\ "npm audit" \in Ran(run) => Succeeded(run, "npm run build")

---------------------------------------------------------------------------
(* Properties of the Forwarder's failure handling *)

C15_LocationUnchanged ==
    \A c \in Clients :
        (/\ conn[c].st = "done"
         /\ conn[c].outcome = "response"
         /\ conn[c].raw.status \in 300..399)
        => /\ conn[c].source = "upstream"
           /\ conn[c].resp.status = conn[c].raw.status
           /\ conn[c].resp.location = conn[c].raw.location

C15_Witness ==
    \E c \in Clients :
        /\ conn[c].st = "done"
        /\ conn[c].raw.status = 301
        /\ conn[c].raw.location = <<"/", "x">>
        /\ conn[c].raw.body = <<"href=", "dq", "/", "x">>
        /\ conn[c].resp.status = 301
        /\ conn[c].resp.location = <<"/", "x">>
        /\ conn[c].resp.body = <<"href=", "dq", "/", "ctf", "/", "x">>


\* the container of this run was started: docker run -d returned 0
Started(r) == r.script \in ProxyTestScripts /\ Succeeded(r, "docker run")

\* a request of the script was answered by the container of this run
Answered(r) ==
    \E cmd \in {"curl /", "curl /ctf/", "curl /ctf/ content", "curl paths", "curl assets",
                 "Invoke-WebRequest /", "Invoke-WebRequest /ctf/",
                 "Invoke-WebRequest /ctf/ content", "Invoke-WebRequest paths",
                 "Invoke-WebRequest assets"} : Succeeded(r, cmd)

HasFailed(c) == conn[c].st = "done" /\ conn[c].outcome \in FailureKinds

Fetched(c) ==
    /\ conn[c].st = "done"
    /\ Caching(conn[c].req)
    /\ conn[c].outcome = "response"
    /\ conn[c].source = "upstream"

\* the entry a completed fetch of client c writes
EntryOf(c) ==
    [resp |-> conn[c].raw, storedAt |-> conn[c].doneAt,
     expiresAt |-> conn[c].doneAt + proxy_cache_valid(conn[c].raw.status),
     usedAt |-> conn[c].doneAt]

\* C18: when requests for one key all missed the cache, each gets the
\* complete response of its own fetch, and the entry of the key afterwards is
\* the status, body, headers and expiry of one of the fetches that could be
\* cached, never a mixture of two.
C18_EntryIsOneFetch ==
    \A c \in Clients : \A d \in Clients \ {c} :
        (Fetched(c) /\ Fetched(d) /\ conn[c].up.path = conn[d].up.path) =>
            /\ conn[c].resp = Downstream(conn[c].raw)
            /\ conn[d].resp = Downstream(conn[d].raw)
            /\ (\E cl \in {c, d} : proxy_cache_valid(conn[cl].raw.status) > 0) =>
                   /\ conn[c].up.path \in DOMAIN cache
                   /\ \E cl \in {c, d} :
                          /\ proxy_cache_valid(conn[cl].raw.status) > 0
                          /\ cache[conn[c].up.path] = EntryOf(cl)

\* C18 happens: two requests for /ctf/ arrived together, both missed, the
\* fetches ended with 404 and then with 200, and the entry is the second.
C18_Witness ==
    /\ Fetched("c1")
    /\ Fetched("c2")
    /\ conn["c1"].up.path = conn["c2"].up.path
    /\ conn["c1"].seen = NoEntry
    /\ conn["c2"].seen = NoEntry
    /\ conn["c1"].raw.status = 404
    /\ conn["c2"].raw.status = 200
    /\ conn["c1"].doneAt < conn["c2"].doneAt
    /\ cache[conn["c1"].up.path] = EntryOf("c2")


\* the request that client c sends in this step finds no fresh entry
Misses(c) ==
    /\ conn[c].st = "idle"
    /\ conn'[c].st # "idle"
    /\ Route(conn'[c].req.path) = "proxy"
    /\ Caching(conn'[c].req)
    /\ LET e == Lookup(UpstreamPath(conn'[c].req.path))
       IN e = NoEntry \/ Expired(e)

\* C19: fetches are not coalesced.  A request that finds no fresh entry goes
\* upstream with a call of its own, also while another fetch for the same
\* key is in flight, and every fetch that ends with a response that can be
\* cached writes the entry, also over the entry another fetch wrote.
C19_NoSingleFlight ==
    [][\A c \in Clients :
          /\ Misses(c) =>
                 /\ conn'[c].st = "upstream"
                 /\ conn'[c].calls = 1
          /\ (/\ conn[c].st = "upstream"
              /\ Fetched(c)'
              /\ proxy_cache_valid(conn'[c].raw.status) > 0) =>
                 cache'[conn[c].up.path] = EntryOf(c)']_vars

\* C19 happens: neither request found an entry, so both fetches were in
\* flight together; both ended with a 200 and wrote the entry.
C19_Witness ==
    /\ Fetched("c1")
    /\ Fetched("c2")
    /\ conn["c1"].up.path = conn["c2"].up.path
    /\ conn["c1"].seen = NoEntry
    /\ conn["c2"].seen = NoEntry
    /\ conn["c1"].raw.status = 200
    /\ conn["c2"].raw.status = 200
    /\ conn["c2"].arrivedAt < conn["c1"].doneAt
    /\ conn["c1"].doneAt <= conn["c2"].doneAt
    /\ cache[conn["c1"].up.path].storedAt = conn["c2"].doneAt


\* rule k alone, over text b from position i: every occurrence replaced
RECURSIVE RuleScan(_, _, _)
RuleScan(k, b, i) ==
    IF i > Len(b) THEN <<>>
    ELSE IF OccursAt(sub_filter_rules[k].match, b, i)
         THEN sub_filter_rules[k].repl \o RuleScan(k, b, i + Len(sub_filter_rules[k].match))
         ELSE <<b[i]>> \o RuleScan(k, b, i + 1)

\* the text after the first k rules were applied one after another
RECURSIVE Stage(_, _)
Stage(b, k) == IF k = 0 THEN b ELSE RuleScan(k, Stage(b, k - 1), 1)

\* the positions at which the pattern of rule k occurs in text b
PositionsOf(k, b) == {i \in 1..Len(b) : OccursAt(sub_filter_rules[k].match, b, i)}

\* how many occurrences of the rules before rule k end before position i of b
EarlierBefore(b, k, i) ==
    Cardinality({o \in Occurrences(b) : o[2] < k /\ LastOf(o) < i})

\* C20: the pass over a rewritable body gives what the rules give when they
\* are applied one after another in configured order, and no rule then
\* matches text that the replacement of an earlier rule produced: rule k
\* matches the text left by the rules before it exactly at the places, moved
\* by what was put in before them, where its pattern occurred in the
\* original body.
C20_MatchesOnlyOriginalText ==
    (Len(texts) >= 2 /\ ctype = "text/html") =>
        LET b == texts[1]
        IN /\ texts[2] = Stage(b, Len(sub_filter_rules))
           /\ \A k \in 1..Len(sub_filter_rules) :
                  PositionsOf(k, Stage(b, k - 1))
                      = {i + 2 * EarlierBefore(b, k, i) : i \in PositionsOf(k, b)}

\* C20 happens: a body with an occurrence of url("/ was rewritten; the rules
\* after that one, url(/ among them, matched nothing in the text it put in.
C20_Witness ==
    /\ Len(texts) >= 2
    /\ ctype = "text/html"
    /\ texts[1] = <<"url(", "dq", "/", "x">>
    /\ Stage(texts[1], 4) = <<"url(", "dq", "/", "ctf", "/", "x">>
    /\ texts[2] = Stage(texts[1], 4)


\* the orders in which the six directives can be written
RuleOrders == Permutations(1..Len(sub_filter_rules))

Permuted(p) == [k \in 1..Len(sub_filter_rules) |-> sub_filter_rules[p[k]]]

\* rule k of the sequence rules alone, over text b from position i
RECURSIVE RuleScanIn(_, _, _, _)
RuleScanIn(rules, k, b, i) ==
    IF i > Len(b) THEN <<>>
    ELSE IF OccursAt(rules[k].match, b, i)
         THEN rules[k].repl \o RuleScanIn(rules, k, b, i + Len(rules[k].match))
         ELSE <<b[i]>> \o RuleScanIn(rules, k, b, i + 1)

\* the text after the first k rules of the sequence were applied one after
\* another
RECURSIVE StageIn(_, _, _)
StageIn(rules, b, k) ==
    IF k = 0 THEN b ELSE RuleScanIn(rules, k, StageIn(rules, b, k - 1), 1)

\* C21: for the six default rules the rewritten body does not depend on the
\* order of the rules: with the directives written in any order the pass
\* gives the text it gives in the configured order, and so do the rules
\* applied one after another in any order; at no place of a body do two
\* rules match.
C21_OrderDoesNotMatter ==
    (Len(texts) = 2 /\ ctype = "text/html") =>
        LET b == texts[1]
        IN /\ \A i \in 1..Len(b) :
                  Cardinality({o \in Occurrences(b) : o[1] = i}) <= 1
           /\ \A rules \in {Permuted(p) : p \in RuleOrders} :
                  /\ SubScanIn(rules, b, 1) = texts[2]
                  /\ StageIn(rules, b, Len(rules)) = texts[2]

\* C21 happens: a body with url("/ and url(/ was rewritten, and the pass with
\* the directives in the opposite order, url(/ first, gives the same text.
C21_Witness ==
    /\ Len(texts) = 2
    /\ ctype = "text/html"
    /\ texts[1] = <<"url(", "dq", "/", "url(", "/">>
    /\ texts[2] = <<"url(", "dq", "/", "ctf", "/", "url(", "/", "ctf", "/">>
    /\ SubScanIn(Permuted([k \in 1..6 |-> 7 - k]), texts[1], 1) = texts[2]


\* the request of client d was answered from the entry that the fetch of
\* client c wrote: the entry for the key, with the status that fetch brought,
\* written when it ended
HitOn(d, c) ==
    /\ Fetched(c)
    /\ conn[d].st = "done"
    /\ conn[d].source = "cache"
    /\ conn[d].up = NoRequest
    /\ UpstreamPath(conn[d].req.path) = conn[c].up.path
    /\ conn[d].seen.resp.status = conn[c].raw.status
    /\ conn[d].seen.storedAt = conn[c].doneAt

\* C22: the body and headers a client gets on a cache hit are those the
\* client of the miss that wrote the entry got: the upstream's body
\* rewritten once, the upstream's headers without the hidden ones.
C22_HitEqualsMiss ==
    \A c \in Clients, d \in Clients :
        HitOn(d, c) =>
            /\ conn[d].resp.body = conn[c].resp.body
            /\ conn[d].resp.headers = conn[c].resp.headers
            /\ conn[d].resp.status = conn[c].resp.status
            /\ conn[d].resp.body = BodyFilter(conn[c].raw.ctype, conn[c].raw.body)
            /\ conn[d].resp.headers = conn[c].raw.headers \ proxy_hide_header

\* C22 happens: the first client's miss brought a 200 whose body has a link
\* to rewrite and a header to hide, and the second client was answered from
\* that entry.
C22_Witness ==
    /\ HitOn("c2", "c1")
    /\ conn["c1"].raw.status = 200
    /\ conn["c1"].raw.body # conn["c2"].resp.body
    /\ conn["c1"].raw.headers # conn["c2"].resp.headers
    /\ conn["c2"].resp = conn["c1"].resp


\* the stages whose failure fails the pipeline
PipelineStages == {"npm run lint", "npm test", "npm run build", "docker build"}

\* C23: a pipeline script prints "All pipeline stages completed
\* successfully!" only on a run in which lint, the tests, the build and, when
\* it was attempted, the Docker build all succeeded.
C23_SuccessOnlyWhenAllPassed ==
    (run.script \in PipelineScripts
        /\ "All pipeline stages completed successfully!" \in Printed(run)) =>
        /\ run.failed \cap PipelineStages = {}
        /\ {"npm run lint", "npm run build"} \subseteq Ran(run)


\* C24: when Node.js is not installed or is older than version 18, a
\* pipeline script runs no command of any stage; it prints its error and
\* ends with status 1.
C24_NoStageWithoutNode ==
    (run.script \in PipelineScripts /\ run.env.node \in {"none", "old"}) =>
        /\ run.ran = <<>>
        /\ run.exit \in {-1, 1}
        /\ run.exit = 1 =>
               Printed(run) = {IF run.env.node = "none"
                               THEN "Node.js is not installed"
                               ELSE "Node.js version 18 or higher is required"}
        /\ run.exit = -1 => run.pc <= 4

\* C24 happens: test-pipeline.ps1 has ended with status 1 on a machine whose
\* Node.js is older than 18.
C24_Witness ==
    /\ run.script = "test-pipeline.ps1"
    /\ run.env.node = "old"
    /\ run.exit = 1
    /\ run.ran = <<>>
    /\ "Node.js version 18 or higher is required" \in Printed(run)


\* no docker stop or docker rm of the run failed
RemovalsWorked(r) == r.failed \cap {"docker stop", "docker rm"} = {}

\* C25: a reverse-proxy test script that has started the container and has
\* ended, without -SkipCleanup, has left it stopped and removed, also when a
\* request or a later command failed; and a container of that name left by
\* an earlier run, running or stopped, is removed before the image is built
\* and the new container started.
C25_ContainerAlwaysRemoved ==
    (run.script \in ProxyTestScripts /\ ~run.env.skipCleanup /\ RemovalsWorked(run)) =>
        /\ (Started(run) /\ run.exit # -1) => run.container = "none"
        /\ (run.env.existing # "none" /\ "docker build" \in Ran(run)) =>
               Succeeded(run, "docker rm")


\* the checks of a reverse-proxy test script that passed in run r
MainSitePassed(r) ==
    /\ Succeeded(r, "curl /") \/ Succeeded(r, "Invoke-WebRequest /")
    /\ r.env.mainStatus = 200

CtfProxyPassed(r) ==
    /\ Succeeded(r, "curl /ctf/") \/ Succeeded(r, "Invoke-WebRequest /ctf/")
    /\ r.env.ctfStatus \in {200, 301, 302}

RewritingPassed(r) ==
    /\ Succeeded(r, "curl /ctf/ content") \/ Succeeded(r, "Invoke-WebRequest /ctf/ content")
    /\ r.env.rewritten

NginxTestPassed(r) == Succeeded(r, "docker exec nginx -t")

\* C26: a reverse-proxy test script prints a line of its summary only on a
\* run where the check of that line passed: the main site returned 200,
\* /ctf/ returned 200, 301 or 302, the body of /ctf/ contained /ctf/,
\* nginx -t succeeded.
C26_SummaryOnlyWhenPassed ==
    run.script \in ProxyTestScripts =>
        /\ "Main site: Accessible" \in Printed(run) => MainSitePassed(run)
        /\ "CTF proxy: Accessible" \in Printed(run) => CtfProxyPassed(run)
        /\ "Path rewriting: Working" \in Printed(run) => RewritingPassed(run)
        /\ "Nginx config: Valid" \in Printed(run) => NginxTestPassed(run)

===========================================================================
